---- MODULE Spec2Model ----
(***************************************************************************)
(* Model of the schema-driven argument-set generator of                    *)
(* Deploy/functiongemma-finetune/schema_utils.py: the value sampler        *)
(* _values_for_param and the builder generate_arg_sets.                    *)
(*                                                                         *)
(* JSON / Python values are records with one shape, [k, n, s, e]:          *)
(*   k  the Python type (str, int, float, bool, list, dict, none)          *)
(*   n  the number: an int's value, a bool's 0/1, a float's value TIMES 2  *)
(*      (every float the sampler makes is a half-integer, (a + b) / 2)     *)
(*   hi a count of 2^52 added to the number, so that integers beyond the   *)
(*      53-bit significand of a float are values too: an int is            *)
(*      hi * 2^52 + n, a float is hi * 2^52 + n / 2, with n small          *)
(*   s  the text of a str                                                  *)
(*   e  the elements of a list                                             *)
(* A dict of the schema is a record whose every key holds a sequence of    *)
(* length 0 (key absent) or 1 (key present, with the value).               *)
(***************************************************************************)
EXTENDS Integers, Sequences, FiniteSets, TLC

VARIABLES parameters, max_cases, pc, specs, required_values, arg_sets,
          opt_idx, unique, result, error,
          frames,   \* the local variables of each of several concurrent calls
          dataset,  \* the run of generate_training_data.main
          handler,  \* the request being served by RouterHandler.do_POST
          config    \* the config module: its singleton and the calls made

vars == <<parameters, max_cases, pc, specs, required_values, arg_sets,
          opt_idx, unique, result, error, frames, dataset, handler, config>>

(* The variables of one call of generate_arg_sets. *)
callVars == <<parameters, max_cases, pc, specs, required_values, arg_sets,
              opt_idx, unique, result, error>>

(* The programs other than generate_arg_sets are not running. *)
OthersIdle ==
    /\ dataset = [pc |-> "idle"]
    /\ handler = [pc |-> "idle"]
    /\ config = [pc |-> "idle"]

----------------------------------------------------------------------------
(* Bounds of the explored inputs. *)

MaxParams == 2

MaxRequired == 2

MaxCap == 4

(* The number of tools in the tools file. *)
MaxTools == 2

(* The number of get_config / reset_config calls. *)
MaxCalls == 6

(* The number of concurrent callers. *)
NumCallers == 2

----------------------------------------------------------------------------
(* Values *)

PyVal(k, n, s, e) == [k |-> k, n |-> n, s |-> s, e |-> e, hi |-> 0]

StrV(s) == PyVal("str", 0, s, <<>>)

IntV(n) == PyVal("int", n, "", <<>>)

(* The int hi * 2^52 + n. *)
BigIntV(hi, n) == [IntV(n) EXCEPT !.hi = hi]

FloatV(twice) == PyVal("float", twice, "", <<>>)

BoolV(b) == PyVal("bool", IF b THEN 1 ELSE 0, "", <<>>)

ListV(e) == PyVal("list", 0, "", e)

EmptyDictV == PyVal("dict", 0, "", <<>>)

NoneV == PyVal("none", 0, "", <<>>)

IsNumber(v) == v.k \in {"int", "float", "bool"}

(* The small part of a number, times 2. *)
Twice(v) == IF v.k = "float" THEN v.n ELSE 2 * v.n

(* The numeric value of a number, as the pair of its two parts. *)
NumValue(v) == <<v.hi, Twice(v)>>

(* Python's int(v): truncation toward zero (downward for a value made     *)
(* positive by its hi part).                                               *)
PyInt(v) ==
    IF v.k = "float"
    THEN BigIntV(v.hi, IF v.n >= 0 \/ v.hi > 0 THEN v.n \div 2
                                               ELSE 0 - ((0 - v.n) \div 2))
    ELSE BigIntV(v.hi, v.n)

(* t rounded to the nearest multiple of step, a tie going to the even     *)
(* multiple: the rounding of a quotient to a float's 53 bits.              *)
RoundHalfEven(t, step) ==
    LET q == t \div step
        r == t - q * step
    IN step * (IF 2 * r < step THEN q
               ELSE IF 2 * r > step THEN q + 1
               ELSE IF q % 2 = 0 THEN q ELSE q + 1)

(* Python's (minimum + maximum) / 2: true division of the exact int sum,  *)
(* correctly rounded to a float.  With hi = 0 the quotient is exact.  With *)
(* hi a power of two the floats around hi * 2^52 are hi apart above it and *)
(* hi / 2 apart below it (the explored bounds keep the sum of the hi       *)
(* parts 0 or twice a power of two).                                       *)
PyMid(minimum, maximum) ==
    LET hi == (minimum.hi + maximum.hi) \div 2
        t  == (Twice(minimum) + Twice(maximum)) \div 2
    IN [FloatV(IF hi = 0 THEN t
               ELSE RoundHalfEven(t, IF t >= 0 THEN 2 * hi ELSE hi))
           EXCEPT !.hi = hi]

(* hash(v) raises TypeError for a list or a dict. *)
Hashable(v) == v.k \notin {"list", "dict"}

(* Python's == on hashable values: numbers compare by numeric value, so    *)
(* 1 == 1.0 == True; anything else compares within its own type.           *)
PyEq(v, w) ==
    IF IsNumber(v) /\ IsNumber(w) THEN NumValue(v) = NumValue(w)
    ELSE v = w

----------------------------------------------------------------------------
(* Schema fragments *)

Fragment(enum, type, minimum, maximum, items, default, description) ==
    [enum |-> enum, type |-> type, minimum |-> minimum, maximum |-> maximum,
     items |-> items, default |-> default, description |-> description]

EmptyFragment == Fragment(<<>>, <<>>, <<>>, <<>>, <<>>, <<>>, <<>>)

(* dict.get(key, default) on a fragment field *)
Get(field, default) == IF field = <<>> THEN default ELSE field[1]

(* Truth value of a dict: false only when it has no key at all. *)
Truthy(schema) == schema # EmptyFragment

RECURSIVE values_for_param_with(_, _)
(* _values_for_param with one slip, named by `slip`:                       *)
(*   type_before_enum  the enum is looked at only after the type dispatch  *)
(*   false_first       a boolean gives [False, True]                       *)
(*   fill_bounds       a missing bound is taken as 0 (minimum), 1 (maximum)*)
(*   all_items         an array holds every candidate of its items         *)
(*   default_first     a present default wins over the type                *)
(*   default_none      a string without default gives None                 *)
values_for_param_with(slip, schema) ==
    LET param_type == Get(schema.type, "string")
        typed ==
          IF param_type = "boolean"
          THEN [raised |-> FALSE,
                values |-> IF slip = "false_first"
                           THEN <<BoolV(FALSE), BoolV(TRUE)>>
                           ELSE <<BoolV(TRUE), BoolV(FALSE)>>]
          ELSE IF param_type \in {"integer", "number"}
          THEN LET minimum == Get(schema.minimum,
                                  IF slip = "fill_bounds" THEN IntV(0) ELSE NoneV)
                   maximum == Get(schema.maximum,
                                  IF slip = "fill_bounds" THEN IntV(1) ELSE NoneV)
                   values  == IF minimum # NoneV /\ maximum # NoneV
                              THEN <<minimum, PyMid(minimum, maximum), maximum>>
                              ELSE <<IntV(0), IntV(1)>>
               IN [raised |-> FALSE,
                   values |-> IF param_type = "integer"
                              THEN [i \in 1..Len(values) |-> PyInt(values[i])]
                              ELSE values]
          ELSE IF param_type = "array"
          THEN LET items == Get(schema.items, EmptyFragment) IN
               IF Truthy(items)
               THEN LET inner == values_for_param_with(slip, items) IN
                    IF inner.raised \/ inner.values = <<>>
                    THEN [raised |-> TRUE, values |-> <<>>]
                    ELSE [raised |-> FALSE,
                          values |-> <<ListV(IF slip = "all_items" THEN inner.values
                                             ELSE <<inner.values[1]>>)>>]
               ELSE [raised |-> FALSE, values |-> <<ListV(<<StrV("item")>>)>>]
          ELSE IF param_type = "object"
          THEN [raised |-> FALSE, values |-> <<EmptyDictV>>]
          ELSE [raised |-> FALSE,
                values |-> <<Get(schema.default,
                                 IF slip = "default_none" THEN NoneV
                                 ELSE StrV("example"))>>]
    IN IF slip = "type_before_enum"
       THEN (IF param_type \in {"boolean", "integer", "number", "array", "object"}
                \/ schema.enum = <<>>
             THEN typed ELSE [raised |-> FALSE, values |-> schema.enum[1]])
       ELSE IF schema.enum # <<>>
       THEN [raised |-> FALSE, values |-> schema.enum[1]]
       ELSE IF slip = "default_first" /\ schema.default # <<>>
       THEN [raised |-> FALSE, values |-> <<schema.default[1]>>]
       ELSE typed

TypeBeforeEnum(schema) == values_for_param_with("type_before_enum", schema)

FalseFirst(schema) == values_for_param_with("false_first", schema)

FillBounds(schema) == values_for_param_with("fill_bounds", schema)

AllItems(schema) == values_for_param_with("all_items", schema)

DefaultFirst(schema) == values_for_param_with("default_first", schema)

DefaultNone(schema) == values_for_param_with("default_none", schema)

RECURSIVE values_for_param(_)
(* _values_for_param: [raised, values]; raised is the IndexError of        *)
(* `_values_for_param(items)[0]` on an empty candidate list.               *)
values_for_param(schema) ==
    IF schema.enum # <<>> THEN [raised |-> FALSE, values |-> schema.enum[1]]
    ELSE LET param_type == Get(schema.type, "string") IN
      IF param_type = "boolean"
      THEN [raised |-> FALSE, values |-> <<BoolV(TRUE), BoolV(FALSE)>>]
      ELSE IF param_type \in {"integer", "number"}
      THEN LET minimum == Get(schema.minimum, NoneV)
               maximum == Get(schema.maximum, NoneV)
               values  == IF minimum # NoneV /\ maximum # NoneV
                          THEN <<minimum, PyMid(minimum, maximum), maximum>>
                          ELSE <<IntV(0), IntV(1)>>
           IN [raised |-> FALSE,
               values |-> IF param_type = "integer"
                          THEN [i \in 1..Len(values) |-> PyInt(values[i])]
                          ELSE values]
      ELSE IF param_type = "array"
      THEN LET items == Get(schema.items, EmptyFragment) IN
           IF Truthy(items)
           THEN LET inner == values_for_param(items) IN
                IF inner.raised \/ inner.values = <<>>
                THEN [raised |-> TRUE, values |-> <<>>]
                ELSE [raised |-> FALSE, values |-> <<ListV(<<inner.values[1]>>)>>]
           ELSE [raised |-> FALSE, values |-> <<ListV(<<StrV("item")>>)>>]
      ELSE IF param_type = "object"
      THEN [raised |-> FALSE, values |-> <<EmptyDictV>>]
      ELSE [raised |-> FALSE, values |-> <<Get(schema.default, StrV("example"))>>]

----------------------------------------------------------------------------
(* Argument sets: a dict from parameter name to value is a function whose  *)
(* domain is the set of its keys.                                          *)

EmptyArgs == [n \in {} |-> NoneV]

(* Names in Python's string order, for sorted(args.items()). *)
NameOrder == <<"a", "b", "c", "d", "zz">>

SeqRange(s) == {s[i] : i \in 1..Len(s)}

RECURSIVE Flatten(_)
(* Concatenation of a sequence of sequences, in order. *)
Flatten(ss) == IF ss = <<>> THEN <<>> ELSE Head(ss) \o Flatten(Tail(ss))

(* parameters.get("properties", {}): the (name, schema) items in order. *)
Props(params) == Get(params.properties, <<>>)

(* set(parameters.get("required", [])) *)
RequiredNames(params) == SeqRange(Get(params.required, <<>>))

(* A variant of Specs that also makes a spec, with an empty schema, for    *)
(* every name of `required` that props does not declare.                   *)
SpecsFromRequiredToo(props, required) ==
    LET declared == {props[i].name : i \in 1..Len(props)}
        missing  == SelectSeq(NameOrder, LAMBDA n : n \in required \ declared)
    IN [i \in 1..Len(props) |->
            [name |-> props[i].name, schema |-> props[i].schema,
             required |-> props[i].name \in required]]
       \o [i \in 1..Len(missing) |->
            [name |-> missing[i], schema |-> EmptyFragment, required |-> TRUE]]

(* The ParamSpec list, one per item of props, in declaration order. *)
Specs(props, required) ==
    [i \in 1..Len(props) |->
        [name |-> props[i].name, schema |-> props[i].schema,
         required |-> props[i].name \in required]]

RequiredSpecs(ss) == SelectSeq(ss, LAMBDA sp : sp.required)

OptionalSpecs(ss) == SelectSeq(ss, LAMBDA sp : ~sp.required)

(* The (name, candidates) pairs of the required parameters. *)
RequiredValues(required_specs) ==
    [i \in 1..Len(required_specs) |->
        [name |-> required_specs[i].name,
         values |-> values_for_param(required_specs[i].schema).values]]

SamplerRaises(some_specs) ==
    \E i \in 1..Len(some_specs) : values_for_param(some_specs[i].schema).raised

RECURSIVE Product(_)
(* itertools.product over the lists: tuples in odometer order, first list  *)
(* varying slowest; no tuple at all when some list is empty.               *)
Product(lists) ==
    IF lists = <<>> THEN << <<>> >>
    ELSE LET rest == Product(Tail(lists)) IN
         Flatten([i \in 1..Len(Head(lists)) |->
                    [j \in 1..Len(rest) |-> <<Head(lists)[i]>> \o rest[j]]])

(* A variant of RequiredArgSets that pairs the names with the tuple in     *)
(* reverse.                                                                *)
RequiredArgSetsSwapped(req_values) ==
    IF req_values # <<>>
    THEN LET tuples == Product([i \in 1..Len(req_values) |-> req_values[i].values])
         IN [t \in 1..Len(tuples) |->
                [n \in {req_values[i].name : i \in 1..Len(req_values)} |->
                    tuples[t][Len(req_values) + 1 -
                        CHOOSE i \in 1..Len(req_values) : req_values[i].name = n]]]
    ELSE <<EmptyArgs>>

(* One argument set per combination of required candidates. *)
RequiredArgSets(req_values) ==
    IF req_values # <<>>
    THEN LET tuples == Product([i \in 1..Len(req_values) |-> req_values[i].values])
         IN [t \in 1..Len(tuples) |->
                [n \in {req_values[i].name : i \in 1..Len(req_values)} |->
                    tuples[t][CHOOSE i \in 1..Len(req_values) : req_values[i].name = n]]]
    ELSE <<EmptyArgs>>

(* enriched = dict(args); enriched[name] = val *)
Enriched(args, name, val) ==
    [n \in DOMAIN args \cup {name} |-> IF n = name THEN val ELSE args[n]]

(* A variant of ExpandWith that writes the key into the accumulated set    *)
(* itself instead of a copy: every set ends with the last candidate, and   *)
(* the appended sets are the same objects.                                 *)
ExpandWithInPlace(sets, name, candidates) ==
    LET written == [i \in 1..Len(sets) |->
                       IF candidates = <<>> THEN sets[i]
                       ELSE Enriched(sets[i], name, candidates[Len(candidates)])]
    IN written \o Flatten([i \in 1..Len(sets) |->
                              [j \in 1..Len(candidates) |-> written[i]]])

(* One round of the optional loop: the sets held so far, then, for each of *)
(* them in order and each candidate in order, the set plus the new key.    *)
ExpandWith(sets, name, candidates) ==
    sets \o Flatten([i \in 1..Len(sets) |->
                        [j \in 1..Len(candidates) |->
                            Enriched(sets[i], name, candidates[j])]])

(* tuple(sorted(args.items())) *)
DedupKey(args) ==
    LET names == SelectSeq(NameOrder, LAMBDA n : n \in DOMAIN args)
    IN [i \in 1..Len(names) |-> <<names[i], args[names[i]]>>]

KeyHashable(key) == \A i \in 1..Len(key) : Hashable(key[i][2])

KeyEq(k1, k2) ==
    /\ Len(k1) = Len(k2)
    /\ \A i \in 1..Len(k1) : k1[i][1] = k2[i][1] /\ PyEq(k1[i][2], k2[i][2])

(* key in seen *)
SeenHas(seen, key) == \E k \in seen : KeyEq(k, key)

(* A variant of DedupStep that never records the key in seen. *)
DedupStepNoAdd(st, args) ==
    IF st.raised \/ st.stopped THEN st
    ELSE LET key == DedupKey(args) IN
         IF ~KeyHashable(key) THEN [st EXCEPT !.raised = TRUE]
         ELSE IF SeenHas(st.seen, key) THEN st
         ELSE [st EXCEPT !.unique = Append(@, args),
                         !.stopped = Len(st.unique) + 1 >= st.cap]

(* The body of the deduplication loop for one argument set. *)
DedupStep(st, args) ==
    IF st.raised \/ st.stopped THEN st
    ELSE LET key == DedupKey(args) IN
         IF ~KeyHashable(key) THEN [st EXCEPT !.raised = TRUE]
         ELSE IF SeenHas(st.seen, key) THEN st
         ELSE [st EXCEPT !.seen = @ \cup {key},
                         !.unique = Append(@, args),
                         !.stopped = Len(st.unique) + 1 >= st.cap]

RECURSIVE DedupFrom(_, _, _)
DedupFrom(st, sets, i) ==
    IF i > Len(sets) THEN st ELSE DedupFrom(DedupStep(st, sets[i]), sets, i + 1)

(* A variant of DedupCap that deduplicates everything and then keeps the   *)
(* last `cap` sets instead of the first.                                   *)
DedupCapKeepLast(sets, cap) ==
    LET full == DedupFrom([unique |-> <<>>, seen |-> {}, raised |-> FALSE,
                           stopped |-> FALSE, cap |-> Len(sets) + 1], sets, 1)
        keep == IF cap < 1 THEN 1 ELSE cap
        n    == Len(full.unique)
    IN [full EXCEPT !.cap = cap,
                    !.unique = IF n <= keep THEN @ ELSE SubSeq(@, n - keep + 1, n)]

(* Deduplicate and cap: [unique, seen, raised, stopped, cap] after the loop. *)
DedupCap(sets, cap) ==
    DedupFrom([unique |-> <<>>, seen |-> {}, raised |-> FALSE,
               stopped |-> FALSE, cap |-> cap], sets, 1)

(* if not unique: return [{}]; return unique *)
Returned(uniq) == IF uniq = <<>> THEN <<EmptyArgs>> ELSE uniq

----------------------------------------------------------------------------
(* The whole call as one function of its two inputs. *)

RECURSIVE ExpandAll(_, _, _)
(* The loop over optional_specs from index i on: [raised, sets]. *)
ExpandAll(sets, optional_specs, i) ==
    IF i > Len(optional_specs) THEN [raised |-> FALSE, sets |-> sets]
    ELSE LET sampled == values_for_param(optional_specs[i].schema) IN
         IF sampled.raised THEN [raised |-> TRUE, sets |-> sets]
         ELSE ExpandAll(ExpandWith(sets, optional_specs[i].name, sampled.values),
                        optional_specs, i + 1)

(* The argument sets accumulated before "Deduplicate and cap". *)
Accumulated(params) ==
    LET ss == Specs(Props(params), RequiredNames(params)) IN
    IF SamplerRaises(RequiredSpecs(ss)) THEN [raised |-> TRUE, sets |-> <<>>]
    ELSE ExpandAll(RequiredArgSets(RequiredValues(RequiredSpecs(ss))),
                   OptionalSpecs(ss), 1)

(* generate_arg_sets(parameters, max_cases): [error, value], error "" on a *)
(* normal return.                                                          *)
generate_arg_sets(params, cap) ==
    LET acc == Accumulated(params) IN
    IF acc.raised THEN [error |-> "IndexError", value |-> <<>>]
    ELSE LET st == DedupCap(acc.sets, cap) IN
         IF st.raised THEN [error |-> "TypeError", value |-> <<>>]
         ELSE [error |-> "", value |-> Returned(st.unique)]

----------------------------------------------------------------------------
(* Explored inputs *)

(* Parameter names in declaration order (not the sorted order). *)
ParamNames == <<"b", "a", "c", "d">>

(* A name that no schema declares. *)
Undeclared == "zz"

Typed(type) == Fragment(<<>>, <<type>>, <<>>, <<>>, <<>>, <<>>, <<>>)

Enum(values) == Fragment(<<values>>, <<>>, <<>>, <<>>, <<>>, <<>>, <<>>)

Ranged(type, minimum, maximum) ==
    Fragment(<<>>, <<type>>, minimum, maximum, <<>>, <<>>, <<>>)

ArrayOf(items) == Fragment(<<>>, <<"array">>, <<>>, <<>>, <<items>>, <<>>, <<>>)

(* Fragments tried in every parameter position. *)
CoreFragments ==
    { Enum(<<>>),
      Enum(<<StrV("x"), StrV("y")>>),
      Enum(<<StrV("x"), StrV("x")>>),
      Enum(<<IntV(1), BoolV(TRUE)>>),
      Typed("boolean"),
      Ranged("integer", <<IntV(0)>>, <<IntV(1)>>),
      Typed("array"),
      Typed("string") }

(* Fragments tried in schemas of one parameter. *)
SamplerFragments ==
    { Fragment(<<<<StrV("x"), StrV("y"), StrV("z")>>>>, <<"boolean">>,
               <<IntV(0)>>, <<IntV(1)>>, <<>>, <<StrV("d")>>, <<>>),
      Enum(<<NoneV, StrV("x")>>),
      Ranged("integer", <<IntV(0)>>, <<IntV(10)>>),
      Ranged("integer", <<IntV(0 - 3)>>, <<IntV(0)>>),
      Ranged("integer", <<IntV(2)>>, <<IntV(2)>>),
      Ranged("integer", <<BigIntV(2, 1)>>, <<BigIntV(2, 1)>>),
      Ranged("integer", <<IntV(0)>>, <<BigIntV(2, 3)>>),
      Ranged("integer", <<IntV(0)>>, <<BigIntV(4096, 0 - 1)>>),
      Ranged("integer", <<IntV(5)>>, <<>>),
      Ranged("integer", <<NoneV>>, <<IntV(3)>>),
      Ranged("number", <<IntV(0)>>, <<IntV(1)>>),
      Ranged("number", <<IntV(1)>>, <<IntV(1)>>),
      Ranged("number", <<>>, <<IntV(3)>>),
      Fragment(<<>>, <<"integer">>, <<>>, <<>>, <<>>, <<IntV(7)>>, <<>>),
      ArrayOf(Typed("boolean")),
      ArrayOf(ArrayOf(Typed("integer"))),
      ArrayOf(EmptyFragment),
      ArrayOf(Enum(<<>>)),
      Typed("object"),
      Fragment(<<>>, <<"object">>, <<>>, <<>>, <<>>, <<StrV("d")>>, <<"a text">>),
      Fragment(<<>>, <<"boolean">>, <<>>, <<>>, <<>>, <<BoolV(FALSE)>>, <<>>),
      Fragment(<<>>, <<"array">>, <<>>, <<>>, <<>>, <<StrV("d")>>, <<>>),
      Fragment(<<>>, <<"foo">>, <<>>, <<>>, <<>>, <<IntV(3)>>, <<>>),
      EmptyFragment,
      Fragment(<<>>, <<>>, <<>>, <<>>, <<>>, <<StrV("d")>>, <<>>),
      Fragment(<<>>, <<"string">>, <<>>, <<>>, <<>>, <<NoneV>>, <<>>),
      Fragment(<<>>, <<"foo">>, <<>>, <<>>, <<>>, <<>>, <<"a text">>) }

(* Sequences without repetition over the set S, of length at most n. *)
InjectiveSeqs(S, n) ==
    UNION {{q \in [1..k -> S] : \A i, j \in 1..k : i # j => q[i] # q[j]} : k \in 0..n}

(* A key of a dict: absent, or present with one of the values of S. *)
OptionalKey(S) == {<<>>} \cup {<<x>> : x \in S}

PropLists(n, fragments) ==
    {[i \in 1..n |-> [name |-> ParamNames[i], schema |-> f[i]]] :
        f \in [1..n -> fragments]}

RequiredLists(n) ==
    InjectiveSeqs({ParamNames[i] : i \in 1..n} \cup {Undeclared}, MaxRequired)

SchemasOf(n, fragments) ==
    {[properties |-> p, required |-> r] :
        p \in IF n = 0 THEN OptionalKey(PropLists(n, fragments))
                       ELSE {<<x>> : x \in PropLists(n, fragments)},
        r \in OptionalKey(RequiredLists(n))}

Schemas ==
    UNION {SchemasOf(n, CoreFragments) : n \in 0..MaxParams}
        \cup SchemasOf(1, SamplerFragments)

Caps == (0 - 1)..MaxCap

----------------------------------------------------------------------------
(* One call of generate_arg_sets, statement group by statement group. *)

Init ==
    /\ parameters \in Schemas
    /\ max_cases \in Caps
    /\ pc = "partition"
    /\ specs = <<>>
    /\ required_values = <<>>
    /\ arg_sets = <<>>
    /\ opt_idx = 1
    /\ unique = <<>>
    /\ result = <<>>
    /\ error = ""
    /\ frames = <<>>
    /\ OthersIdle

(* props, required, specs, required_specs, optional_specs *)
Partition ==
    /\ pc = "partition"
    /\ specs' = Specs(Props(parameters), RequiredNames(parameters))
    /\ pc' = "sample"
    /\ UNCHANGED <<frames, dataset, handler, config, parameters, max_cases, required_values, arg_sets, opt_idx,
                   unique, result, error>>

(* The loop that samples each required parameter. *)
SampleRequired ==
    /\ pc = "sample"
    /\ IF SamplerRaises(RequiredSpecs(specs))
       THEN /\ pc' = "raised"
            /\ error' = "IndexError"
            /\ UNCHANGED required_values
       ELSE /\ pc' = "product"
            /\ required_values' = RequiredValues(RequiredSpecs(specs))
            /\ UNCHANGED error
    /\ UNCHANGED <<frames, dataset, handler, config, parameters, max_cases, specs, arg_sets, opt_idx, unique, result>>

(* The Cartesian product over the required candidates. *)
RequiredProduct ==
    /\ pc = "product"
    /\ arg_sets' = RequiredArgSets(required_values)
    /\ opt_idx' = 1
    /\ pc' = "expand"
    /\ UNCHANGED <<frames, dataset, handler, config, parameters, max_cases, specs, required_values, unique,
                   result, error>>

(* One iteration of the loop over optional_specs. *)
ExpandOptional ==
    /\ pc = "expand"
    /\ opt_idx <= Len(OptionalSpecs(specs))
    /\ LET spec == OptionalSpecs(specs)[opt_idx]
           sampled == values_for_param(spec.schema)
       IN IF sampled.raised
          THEN /\ pc' = "raised"
               /\ error' = "IndexError"
               /\ UNCHANGED <<arg_sets, opt_idx>>
          ELSE /\ arg_sets' = ExpandWith(arg_sets, spec.name, sampled.values)
               /\ opt_idx' = opt_idx + 1
               /\ UNCHANGED <<pc, error>>
    /\ UNCHANGED <<frames, dataset, handler, config, parameters, max_cases, specs, required_values, unique, result>>

(* Deduplicate and cap. *)
Deduplicate ==
    /\ pc = "expand"
    /\ opt_idx > Len(OptionalSpecs(specs))
    /\ LET st == DedupCap(arg_sets, max_cases)
       IN IF st.raised
          THEN /\ pc' = "raised"
               /\ error' = "TypeError"
               /\ UNCHANGED unique
          ELSE /\ unique' = st.unique
               /\ pc' = "return"
               /\ UNCHANGED error
    /\ UNCHANGED <<frames, dataset, handler, config, parameters, max_cases, specs, required_values, arg_sets,
                   opt_idx, result>>

(* A variant of Return that also slices the list to max_cases. *)
ReturnSliced ==
    /\ pc = "return"
    /\ LET whole == Returned(unique)
           upto  == IF max_cases >= Len(whole) THEN Len(whole)
                    ELSE IF max_cases >= 0 THEN max_cases
                    ELSE IF Len(whole) + max_cases >= 0 THEN Len(whole) + max_cases
                    ELSE 0
       IN result' = [i \in 1..upto |-> whole[i]]
    /\ pc' = "done"
    /\ UNCHANGED <<frames, dataset, handler, config, parameters, max_cases, specs, required_values, arg_sets,
                   opt_idx, unique, error>>

(* The two return statements. *)
Return ==
    /\ pc = "return"
    /\ result' = Returned(unique)
    /\ pc' = "done"
    /\ UNCHANGED <<frames, dataset, handler, config, parameters, max_cases, specs, required_values, arg_sets,
                   opt_idx, unique, error>>

Next ==
    \/ Partition
    \/ SampleRequired
    \/ RequiredProduct
    \/ ExpandOptional
    \/ Deduplicate
    \/ Return

Spec == Init /\ [][Next]_vars

----------------------------------------------------------------------------
(* The steps of a call compute the function generate_arg_sets. *)
StepsComputeFunction ==
    /\ pc = "done" => generate_arg_sets(parameters, max_cases) =
                          [error |-> "", value |-> result]
    /\ pc = "raised" => generate_arg_sets(parameters, max_cases) =
                          [error |-> error, value |-> <<>>]

----------------------------------------------------------------------------
(* Several calls of generate_arg_sets at the same time. Each call has its  *)
(* own frame of local variables; a step of one call is one statement group *)
(* of the function, the deduplication loop one iteration at a time. The    *)
(* calls share nothing but the schemas they read.                          *)

Callers == 1..NumCallers

(* The frame of a call that has just been entered. *)
NewFrame(params, cap) ==
    [parameters |-> params, max_cases |-> cap, pc |-> "partition",
     specs |-> <<>>, required_values |-> <<>>, arg_sets |-> <<>>, opt_idx |-> 1,
     idx |-> 1, seen |-> {}, unique |-> <<>>, result |-> <<>>, error |-> ""]

(* The calls made concurrently: a duplicated required enum with an         *)
(* optional boolean under two caps, a required array, an empty enum.       *)
ConcurrentInputs ==
    LET one(f) == <<[name |-> "b", schema |-> f]>>
        two    == <<[name |-> "b", schema |-> Enum(<<StrV("x"), StrV("x")>>)],
                    [name |-> "a", schema |-> Typed("boolean")]>>
        req(p) == [properties |-> <<p>>, required |-> <<<<"b">>>>]
    IN { [parameters |-> req(two), max_cases |-> 2],
         [parameters |-> req(two), max_cases |-> MaxCap],
         [parameters |-> req(one(Typed("array"))), max_cases |-> 1],
         [parameters |-> req(one(Enum(<<>>))), max_cases |-> 1] }

ConcurrentInit ==
    /\ frames \in [Callers -> {NewFrame(i.parameters, i.max_cases) : i \in ConcurrentInputs}]
    /\ parameters = [properties |-> <<>>, required |-> <<>>]
    /\ max_cases = 1
    /\ pc = "concurrent"
    /\ specs = <<>>
    /\ required_values = <<>>
    /\ arg_sets = <<>>
    /\ opt_idx = 1
    /\ unique = <<>>
    /\ result = <<>>
    /\ error = ""
    /\ OthersIdle

(* Caller c's frame becomes `frame`; nothing else changes. *)
Assign(c, frame) ==
    /\ frames' = [frames EXCEPT ![c] = frame]
    /\ UNCHANGED <<parameters, max_cases, pc, specs, required_values, arg_sets,
                   opt_idx, unique, result, error, dataset, handler, config>>

(* A variant of SeenOf in which all the calls use one `seen` set. *)
SeenOfAll(c) == UNION {frames[d].seen : d \in Callers}

(* The `seen` set of caller c: allocated by its own call. *)
SeenOf(c) == frames[c].seen

CallPartition(c) ==
    /\ frames[c].pc = "partition"
    /\ Assign(c, [frames[c] EXCEPT
           !.specs = Specs(Props(frames[c].parameters), RequiredNames(frames[c].parameters)),
           !.pc = "sample"])

CallSampleRequired(c) ==
    /\ frames[c].pc = "sample"
    /\ LET required_specs == RequiredSpecs(frames[c].specs)
       IN IF SamplerRaises(required_specs)
          THEN Assign(c, [frames[c] EXCEPT !.pc = "raised", !.error = "IndexError"])
          ELSE Assign(c, [frames[c] EXCEPT !.pc = "product",
                              !.required_values = RequiredValues(required_specs)])

CallRequiredProduct(c) ==
    /\ frames[c].pc = "product"
    /\ Assign(c, [frames[c] EXCEPT
           !.arg_sets = RequiredArgSets(frames[c].required_values),
           !.opt_idx = 1,
           !.pc = "expand"])

CallExpandOptional(c) ==
    /\ frames[c].pc = "expand"
    /\ frames[c].opt_idx <= Len(OptionalSpecs(frames[c].specs))
    /\ LET spec == OptionalSpecs(frames[c].specs)[frames[c].opt_idx]
           sampled == values_for_param(spec.schema)
       IN IF sampled.raised
          THEN Assign(c, [frames[c] EXCEPT !.pc = "raised", !.error = "IndexError"])
          ELSE Assign(c, [frames[c] EXCEPT
                   !.arg_sets = ExpandWith(@, spec.name, sampled.values),
                   !.opt_idx = @ + 1])

(* unique = []; seen = set() *)
CallStartDedup(c) ==
    /\ frames[c].pc = "expand"
    /\ frames[c].opt_idx > Len(OptionalSpecs(frames[c].specs))
    /\ Assign(c, [frames[c] EXCEPT !.unique = <<>>, !.seen = {}, !.idx = 1,
                                   !.pc = "dedup"])

(* One iteration of the deduplication loop, or its exhaustion. *)
CallDedupIter(c) ==
    /\ frames[c].pc = "dedup"
    /\ IF frames[c].idx > Len(frames[c].arg_sets)
       THEN Assign(c, [frames[c] EXCEPT !.pc = "return"])
       ELSE LET st == DedupStep([unique |-> frames[c].unique, seen |-> SeenOf(c),
                                 raised |-> FALSE, stopped |-> FALSE,
                                 cap |-> frames[c].max_cases],
                                frames[c].arg_sets[frames[c].idx])
            IN IF st.raised
               THEN Assign(c, [frames[c] EXCEPT !.pc = "raised", !.error = "TypeError"])
               ELSE Assign(c, [frames[c] EXCEPT
                        !.unique = st.unique,
                        !.seen = st.seen,
                        !.idx = @ + 1,
                        !.pc = IF st.stopped THEN "return" ELSE "dedup"])

CallReturn(c) ==
    /\ frames[c].pc = "return"
    /\ Assign(c, [frames[c] EXCEPT !.result = Returned(frames[c].unique),
                                   !.pc = "done"])

ConcurrentNext ==
    \E c \in Callers :
        \/ CallPartition(c)
        \/ CallSampleRequired(c)
        \/ CallRequiredProduct(c)
        \/ CallExpandOptional(c)
        \/ CallStartDedup(c)
        \/ CallDedupIter(c)
        \/ CallReturn(c)

SpecConcurrent == ConcurrentInit /\ [][ConcurrentNext]_vars

----------------------------------------------------------------------------
(* generate_training_data.main: one training item and one test vector per  *)
(* argument set of every tool, then the NO_TOOL scenarios, then the files. *)

(* No call of generate_arg_sets is being stepped. *)
CallIdle ==
    /\ parameters = [properties |-> <<>>, required |-> <<>>]
    /\ max_cases = 1
    /\ pc = "idle"
    /\ specs = <<>>
    /\ required_values = <<>>
    /\ arg_sets = <<>>
    /\ opt_idx = 1
    /\ unique = <<>>
    /\ result = <<>>
    /\ error = ""
    /\ frames = <<>>

ToolNames == <<"t1", "t2", "t3", "t4">>

(* The `parameters` of the tools tried: none, a required enum with an      *)
(* optional boolean, a required array, a required empty enum.              *)
ToolParameters ==
    LET one(f) == <<[name |-> "b", schema |-> f]>>
        two    == <<[name |-> "b", schema |-> Enum(<<StrV("x"), StrV("y")>>)],
                    [name |-> "a", schema |-> Typed("boolean")]>>
        req(p) == [properties |-> <<p>>, required |-> <<<<"b">>>>]
    IN { [properties |-> <<>>, required |-> <<>>],
         req(two),
         req(one(Typed("array"))),
         req(one(Enum(<<>>))) }

(* The tools files: up to MaxTools tools, named by position. *)
ToolLists ==
    UNION {{[i \in 1..n |-> [name |-> ToolNames[i], parameters |-> ps[i]]] :
               ps \in [1..n -> ToolParameters]} : n \in 0..MaxTools}

(* The scenarios files: for each scenario, whether it names a tool. *)
ScenarioLists == {<<>>, <<FALSE>>, <<TRUE, FALSE>>}

DatasetInit ==
    /\ dataset \in {[tools |-> t, max_cases |-> c, scenarios |-> sc, pc |-> "tools",
                     tool_idx |-> 1, pending |-> <<>>, dataset_items |-> <<>>,
                     test_vectors |-> <<>>, written |-> <<>>, error |-> ""] :
                        t \in ToolLists, c \in Caps, sc \in ScenarioLists}
    /\ handler = [pc |-> "idle"]
    /\ config = [pc |-> "idle"]
    /\ CallIdle

(* The training item of a tool call. *)
ToolItem(name, args) == [kind |-> "tool_call", tool |-> name, arguments |-> args]

(* The test vector of a tool call. *)
TestVector(name, args) == [tool |-> name, arguments |-> args]

NoToolItem == [kind |-> "NO_TOOL", tool |-> "", arguments |-> EmptyArgs]

(* for tool in tools: ... generate_arg_sets(params, max_cases=cfg.max_cases) *)
GenerateForTool ==
    /\ dataset.pc = "tools"
    /\ dataset.tool_idx <= Len(dataset.tools)
    /\ LET out == generate_arg_sets(dataset.tools[dataset.tool_idx].parameters,
                                    dataset.max_cases)
       IN dataset' = IF out.error # ""
                     THEN [dataset EXCEPT !.pc = "raised", !.error = out.error]
                     ELSE [dataset EXCEPT !.pc = "examples", !.pending = out.value]
    /\ UNCHANGED <<callVars, frames, handler, config>>

(* The body of the inner loop: one training item, one test vector. *)
AppendExample ==
    /\ dataset.pc = "examples"
    /\ dataset.pending # <<>>
    /\ LET name == dataset.tools[dataset.tool_idx].name
           args == Head(dataset.pending)
       IN dataset' = [dataset EXCEPT
              !.dataset_items = Append(@, ToolItem(name, args)),
              !.test_vectors = Append(@, TestVector(name, args)),
              !.pending = Tail(@)]
    /\ UNCHANGED <<callVars, frames, handler, config>>

(* The inner loop is exhausted: on to the next tool. *)
EndOfTool ==
    /\ dataset.pc = "examples"
    /\ dataset.pending = <<>>
    /\ dataset' = [dataset EXCEPT !.tool_idx = @ + 1, !.pc = "tools"]
    /\ UNCHANGED <<callVars, frames, handler, config>>

(* The scenarios without tool_name each add one NO_TOOL training item. *)
AppendScenarios ==
    /\ dataset.pc = "tools"
    /\ dataset.tool_idx > Len(dataset.tools)
    /\ LET no_tool == SelectSeq(dataset.scenarios, LAMBDA has_tool : ~has_tool)
       IN dataset' = [dataset EXCEPT
              !.dataset_items = @ \o [i \in 1..Len(no_tool) |-> NoToolItem],
              !.pc = "write"]
    /\ UNCHANGED <<callVars, frames, handler, config>>

(* The two files are written. *)
WriteFiles ==
    /\ dataset.pc = "write"
    /\ dataset' = [dataset EXCEPT !.written = dataset.test_vectors, !.pc = "done"]
    /\ UNCHANGED <<callVars, frames, handler, config>>

DatasetNext ==
    \/ GenerateForTool
    \/ AppendExample
    \/ EndOfTool
    \/ AppendScenarios
    \/ WriteFiles

SpecDataset == DatasetInit /\ [][DatasetNext]_vars

----------------------------------------------------------------------------
(* tool_router.RouterHandler.do_POST serving one request. *)

Paths == {"/route", "/", "/route/"}

(* The Content-Length header: the length of the body, absent (read as 0),  *)
(* or not a number.                                                        *)
ContentLengths == {"exact", "absent", "not_a_number"}

(* The request body: an object with messages, with a prompt only, an       *)
(* empty object, JSON that is not an object, bytes that are not JSON.      *)
Bodies == {"messages", "prompt", "empty_object", "not_object", "not_json"}

(* What chat_completion does: returns a result whose first choice has a    *)
(* message, has none, a result with an empty `choices`, without `choices`, *)
(* with a first choice that is not an object; or raises.                   *)
Upstreams == {"message", "no_message_key", "empty_choices", "no_choices_key",
              "choice_not_object", "http_error", "timeout"}

RouterInit ==
    /\ handler \in {[path |-> p, content_length |-> cl, body |-> b,
                     system_prompt |-> sp, upstream |-> u, pc |-> "start",
                     raw |-> "", messages |-> <<>>, upstream_calls |-> 0,
                     message |-> "", statuses |-> <<>>, written |-> ""] :
                        p \in Paths, cl \in ContentLengths, b \in Bodies,
                        sp \in BOOLEAN, u \in Upstreams}
    /\ dataset = [pc |-> "idle"]
    /\ config = [pc |-> "idle"]
    /\ CallIdle

(* A variant of CheckPath without the return after the 404. *)
CheckPathFallThrough ==
    /\ handler.pc = "start"
    /\ handler' = [handler EXCEPT
           !.statuses = IF handler.path # "/route" THEN Append(@, 404) ELSE @,
           !.pc = "read"]
    /\ UNCHANGED <<callVars, frames, dataset, config>>

(* if self.path != "/route": 404 and return *)
CheckPath ==
    /\ handler.pc = "start"
    /\ handler' = IF handler.path # "/route"
                  THEN [handler EXCEPT !.statuses = Append(@, 404), !.pc = "done"]
                  ELSE [handler EXCEPT !.pc = "read"]
    /\ UNCHANGED <<callVars, frames, dataset, config>>

(* length = int(Content-Length or "0"); raw = rfile.read(length): outside  *)
(* the try, so a header that is not a number ends the handler with the     *)
(* exception.                                                              *)
ReadBody ==
    /\ handler.pc = "read"
    /\ handler' = IF handler.content_length = "not_a_number"
                  THEN [handler EXCEPT !.pc = "crashed"]
                  ELSE [handler EXCEPT
                           !.raw = IF handler.content_length = "absent" THEN "empty"
                                   ELSE handler.body,
                           !.pc = "parse"]
    /\ UNCHANGED <<callVars, frames, dataset, config>>

(* json.loads, payload.get, and the messages built when none are given. *)
ParseBody ==
    /\ handler.pc = "parse"
    /\ handler' = IF handler.raw \in {"empty", "not_json", "not_object"}
                  THEN [handler EXCEPT !.pc = "except"]
                  ELSE [handler EXCEPT
                           !.messages = IF handler.raw = "messages" THEN <<"given">>
                                        ELSE IF handler.system_prompt
                                        THEN <<"developer", "user">>
                                        ELSE <<"user">>,
                           !.pc = "upstream"]
    /\ UNCHANGED <<callVars, frames, dataset, config>>

(* result = chat_completion(...) *)
CallUpstream ==
    /\ handler.pc = "upstream"
    /\ handler' = [handler EXCEPT
           !.upstream_calls = @ + 1,
           !.pc = IF handler.upstream \in {"http_error", "timeout"}
                  THEN "except" ELSE "extract"]
    /\ UNCHANGED <<callVars, frames, dataset, config>>

(* choice = result.get("choices", [])[0]; message = choice.get("message", {}) *)
ExtractChoice ==
    /\ handler.pc = "extract"
    /\ handler' = IF handler.upstream \in {"empty_choices", "no_choices_key",
                                           "choice_not_object"}
                  THEN [handler EXCEPT !.pc = "except"]
                  ELSE [handler EXCEPT
                           !.message = IF handler.upstream = "message"
                                       THEN "first_choice_message" ELSE "{}",
                           !.pc = "respond"]
    /\ UNCHANGED <<callVars, frames, dataset, config>>

(* send_response(200) and the message as body *)
Respond200 ==
    /\ handler.pc = "respond"
    /\ handler' = [handler EXCEPT !.statuses = Append(@, 200),
                                  !.written = handler.message,
                                  !.pc = "done"]
    /\ UNCHANGED <<callVars, frames, dataset, config>>

(* except Exception: send_response(500) and {"error": ...} as body *)
Respond500 ==
    /\ handler.pc = "except"
    /\ handler' = [handler EXCEPT !.statuses = Append(@, 500),
                                  !.written = "error",
                                  !.pc = "done"]
    /\ UNCHANGED <<callVars, frames, dataset, config>>

RouterNext ==
    \/ CheckPath
    \/ ReadBody
    \/ ParseBody
    \/ CallUpstream
    \/ ExtractChoice
    \/ Respond200
    \/ Respond500

SpecRouter == RouterInit /\ [][RouterNext]_vars

----------------------------------------------------------------------------
(* config.get_config and config.reset_config, called in any order. The     *)
(* instances of PcaiConfig are numbered in creation order; 0 is None.      *)

ConfigInit ==
    /\ config = [instance |-> 0, created |-> 0, log |-> <<>>]
    /\ dataset = [pc |-> "idle"]
    /\ handler = [pc |-> "idle"]
    /\ CallIdle

(* A variant of GetConfig that constructs an instance at every call. *)
GetConfigAlwaysNew ==
    /\ Len(config.log) < MaxCalls
    /\ LET made == config.created + 1
       IN config' = [instance |-> made, created |-> made,
                     log |-> Append(config.log,
                                    [op |-> "get", returned |-> made, created |-> made])]
    /\ UNCHANGED <<callVars, frames, dataset, handler>>

(* if _config is None: _config = PcaiConfig(); return _config *)
GetConfig ==
    /\ Len(config.log) < MaxCalls
    /\ LET made == IF config.instance = 0 THEN config.created + 1 ELSE config.created
           inst == IF config.instance = 0 THEN made ELSE config.instance
       IN config' = [instance |-> inst, created |-> made,
                     log |-> Append(config.log,
                                    [op |-> "get", returned |-> inst, created |-> made])]
    /\ UNCHANGED <<callVars, frames, dataset, handler>>

(* _config = None *)
ResetConfig ==
    /\ Len(config.log) < MaxCalls
    /\ config' = [config EXCEPT
           !.instance = 0,
           !.log = Append(@, [op |-> "reset", returned |-> 0,
                              created |-> config.created])]
    /\ UNCHANGED <<callVars, frames, dataset, handler>>

ConfigNext ==
    \/ GetConfig
    \/ ResetConfig

SpecConfig == ConfigInit /\ [][ConfigNext]_vars

----------------------------------------------------------------------------
(* Vocabulary of the properties: JSON content, independent of the code's   *)
(* own comparison.                                                         *)

(* Two values are the same JSON value: a number by its numeric value, a    *)
(* boolean only with a boolean, anything else structurally.                *)
JsonEq(v, w) ==
    IF v.k \in {"int", "float"} /\ w.k \in {"int", "float"}
    THEN NumValue(v) = NumValue(w)
    ELSE v = w

(* Identical key/value content, as an unordered set of pairs. *)
SameContent(a1, a2) ==
    /\ DOMAIN a1 = DOMAIN a2
    /\ \A n \in DOMAIN a1 : JsonEq(a1[n], a2[n])

Contains(sets, args) == \E i \in 1..Len(sets) : SameContent(sets[i], args)

IsPrefix(s, t) == Len(s) <= Len(t) /\ \A i \in 1..Len(s) : s[i] = t[i]

Min(x, y) == IF x <= y THEN x ELSE y

RECURSIVE FirstOccurrencesFrom(_, _)
FirstOccurrencesFrom(sets, i) ==
    IF i > Len(sets) THEN <<>>
    ELSE (IF \E j \in 1..(i - 1) : SameContent(sets[j], sets[i])
          THEN <<>> ELSE <<sets[i]>>) \o FirstOccurrencesFrom(sets, i + 1)

(* The sequence with every later repetition of a content removed. *)
FirstOccurrences(sets) == FirstOccurrencesFrom(sets, 1)

DeclaredNames == {Props(parameters)[i].name : i \in 1..Len(Props(parameters))}

(* Indices into properties of the required / optional parameters. *)
RequiredIdx == {i \in 1..Len(Props(parameters)) :
                    Props(parameters)[i].name \in RequiredNames(parameters)}

OptionalIdx == (1..Len(Props(parameters))) \ RequiredIdx

Candidates(i) == values_for_param(Props(parameters)[i].schema).values

Returns == pc = "done"

----------------------------------------------------------------------------
(* C1  Totality: with max_cases >= 1 a call never raises, and what it      *)
(* returns is a list of at least one and at most max_cases argument sets;  *)
(* every explored schema is built of well-typed fragments of the           *)
(* recognised shapes, array and object among them.                         *)
Totality ==
    max_cases >= 1 =>
        /\ pc # "raised"
        /\ Returns => Len(result) >= 1 /\ Len(result) <= max_cases

(* C2  Required coverage: every returned argument set has every name of    *)
(* the `required` list among its keys.                                     *)
RequiredCoverage ==
    Returns => \A i \in 1..Len(result) :
                   RequiredNames(parameters) \subseteq DOMAIN result[i]

(* C3  No unknown keys: every key of every returned argument set is a      *)
(* name declared in `properties`.                                          *)
NoUnknownKeys ==
    Returns => \A i \in 1..Len(result) : DOMAIN result[i] \subseteq DeclaredNames

(* C3 witness: a returned set with two keys, for a schema whose `required` *)
(* also lists a name that `properties` does not declare.                   *)
NoUnknownKeysWitness ==
    /\ Returns
    /\ Undeclared \in RequiredNames(parameters)
    /\ \E i \in 1..Len(result) : Cardinality(DOMAIN result[i]) = 2

(* C4  Dedup: no two returned argument sets have identical content.        *)
NoDuplicates ==
    Returns => \A i, j \in 1..Len(result) :
                   i # j => ~SameContent(result[i], result[j])

(* C4 witness: the accumulated sets held the same content twice, the loop  *)
(* ran over all of them below the cap, and several sets were returned.     *)
NoDuplicatesWitness ==
    /\ Returns
    /\ Len(result) > 1
    /\ Len(result) < max_cases
    /\ \E i, j \in 1..Len(arg_sets) : i # j /\ arg_sets[i] = arg_sets[j]

(* C5  Cap enforcement: with max_cases = N >= 1 and U distinct contents    *)
(* among the accumulated sets, exactly min(N, U) sets are returned.        *)
CapEnforcement ==
    (Returns /\ max_cases >= 1) =>
        Len(result) = Min(max_cases, Len(FirstOccurrences(arg_sets)))

(* C6  Cap monotonicity: for caps 1 <= N1 <= N2, the list returned with    *)
(* N1 is a prefix of the list returned with N2 (here N2 = max_cases).      *)
CapMonotone ==
    Returns => \A n1 \in 1..max_cases :
                   LET smaller == generate_arg_sets(parameters, n1)
                   IN smaller.error = "" /\ IsPrefix(smaller.value, result)

(* C6 witness: the cap cut the list at N2, and a smaller cap N1 returns a  *)
(* shorter, non-empty list.                                                *)
CapMonotoneWitness ==
    /\ Returns
    /\ max_cases >= 3
    /\ Len(result) = max_cases
    /\ Len(FirstOccurrences(arg_sets)) > max_cases
    /\ Len(generate_arg_sets(parameters, 2).value) = 2

(* All bindings of the required declared parameters to their candidates. *)
RequiredCombinations ==
    {r \in [{Props(parameters)[i].name : i \in RequiredIdx} ->
                UNION {SeqRange(Candidates(i)) : i \in RequiredIdx}] :
        \A i \in RequiredIdx : r[Props(parameters)[i].name] \in SeqRange(Candidates(i))}

(* C8  Optional omission variant: when max_cases is at least the number of *)
(* distinct accumulated sets, the result contains, for every required      *)
(* combination r, r alone and, for every optional parameter o and each of  *)
(* its candidates v, r plus {o: v}.                                        *)
OptionalOmission ==
    (Returns /\ max_cases >= Len(FirstOccurrences(arg_sets))) =>
        \A r \in RequiredCombinations :
            /\ Contains(result, r)
            /\ \A o \in OptionalIdx : \A k \in 1..Len(Candidates(o)) :
                   Contains(result, Enriched(r, Props(parameters)[o].name,
                                             Candidates(o)[k]))

RECURSIVE ReferenceProduct(_)
(* The combinations of the required parameters from declaration index i    *)
(* on, the earlier-declared parameter varying slowest.                     *)
ReferenceProduct(i) ==
    IF i > Len(Props(parameters)) THEN <<EmptyArgs>>
    ELSE IF i \notin RequiredIdx THEN ReferenceProduct(i + 1)
    ELSE Flatten([k \in 1..Len(Candidates(i)) |->
            [t \in 1..Len(ReferenceProduct(i + 1)) |->
                Enriched(ReferenceProduct(i + 1)[t], Props(parameters)[i].name,
                         Candidates(i)[k])]])

RECURSIVE ReferenceProduction(_)
(* The production order up to declaration index i: the required product,   *)
(* then what each optional parameter declared so far adds.                 *)
ReferenceProduction(i) ==
    IF i = 0 THEN ReferenceProduct(1)
    ELSE IF i \in RequiredIdx THEN ReferenceProduction(i - 1)
    ELSE LET before == ReferenceProduction(i - 1) IN
         before \o Flatten([t \in 1..Len(before) |->
                     [k \in 1..Len(Candidates(i)) |->
                         Enriched(before[t], Props(parameters)[i].name,
                                  Candidates(i)[k])]])

(* C9  Production order: the returned list is the production order with   *)
(* first occurrences kept, cut at some length; and permuting the names of  *)
(* the `required` list does not change the result.                         *)
ProductionOrder ==
    Returns =>
        /\ IsPrefix(result,
                    FirstOccurrences(ReferenceProduction(Len(Props(parameters)))))
        /\ \A r2 \in RequiredLists(MaxParams) :
               SeqRange(r2) = RequiredNames(parameters) =>
                   generate_arg_sets([parameters EXCEPT !.required = <<r2>>],
                                     max_cases).value = result

(* C10  No-parameter case: with `properties` empty or absent and            *)
(* `required` empty or absent, the result is exactly [{}], whatever the    *)
(* cap.                                                                    *)
NoParameterCase ==
    (Returns /\ Props(parameters) = <<>> /\ RequiredNames(parameters) = {}) =>
        result = <<EmptyArgs>>

(* C10 witness: the call returned for a schema with neither key and a cap  *)
(* below 1.                                                                *)
NoParameterCaseWitness ==
    /\ Returns
    /\ parameters.properties = <<>>
    /\ parameters.required = <<>>
    /\ max_cases <= 0

----------------------------------------------------------------------------
(* Vocabulary of the sampler properties *)

(* The schema fragment of the i-th declared parameter. *)
Frag(i) == Props(parameters)[i].schema

Declared == 1..Len(Props(parameters))

(* The required loop has sampled: required_values holds its candidates. *)
Sampled == pc \in {"product", "expand", "return", "done"}

(* The schema declares one parameter, and it is required. *)
SoleRequired == Len(Props(parameters)) = 1 /\ RequiredIdx = {1}

(* One argument set {name: v} per value of the sequence, in order. *)
OneKeySets(name, values) ==
    [k \in 1..Len(values) |-> [n \in {name} |-> values[k]]]

(* The sampler's answer for every declared parameter, and the candidates   *)
(* the run holds for the required ones, are as `expected` says wherever    *)
(* `shape` applies.                                                        *)
SamplesAs(shape(_), expected(_)) ==
    /\ \A i \in Declared : shape(Frag(i)) =>
           values_for_param(Frag(i)) = [raised |-> FALSE, values |-> expected(Frag(i))]
    /\ Sampled => \A j \in 1..Len(required_values) :
           shape(RequiredSpecs(specs)[j].schema) =>
               required_values[j].values = expected(RequiredSpecs(specs)[j].schema)

HasEnum(f) == f.enum # <<>>

EnumOf(f) == f.enum[1]

(* C11  Enum exhaustiveness and priority: a fragment with an `enum` key is *)
(* sampled as exactly the enum's values in declared order, whatever its    *)
(* type, bounds or default; one required parameter with an enum of three   *)
(* distinct strings and max_cases >= 3 yields the three one-key sets in    *)
(* that order.                                                             *)
EnumPriority ==
    /\ SamplesAs(HasEnum, EnumOf)
    /\ (Returns /\ SoleRequired /\ max_cases >= 3 /\ HasEnum(Frag(1))
          /\ EnumOf(Frag(1)) = <<StrV("x"), StrV("y"), StrV("z")>>) =>
           result = OneKeySets(Props(parameters)[1].name,
                               <<StrV("x"), StrV("y"), StrV("z")>>)

(* C11 witness: a call returned for one required parameter whose fragment  *)
(* has a three-valued enum next to type boolean, bounds and a default.     *)
EnumPriorityWitness ==
    /\ Returns /\ SoleRequired /\ max_cases >= 3
    /\ HasEnum(Frag(1)) /\ Len(EnumOf(Frag(1))) = 3
    /\ Frag(1).type = <<"boolean">> /\ Frag(1).default # <<>>
    /\ Frag(1).minimum # <<>>
    /\ Len(result) = 3

IsBoolean(f) == f.enum = <<>> /\ f.type = <<"boolean">>

TrueFalse(f) == <<BoolV(TRUE), BoolV(FALSE)>>

(* C12  Boolean coverage: a boolean fragment without enum is sampled as    *)
(* [true, false]; one required boolean parameter with max_cases >= 2       *)
(* yields exactly [{p: true}, {p: false}].                                 *)
BooleanCoverage ==
    /\ SamplesAs(IsBoolean, TrueFalse)
    /\ (Returns /\ SoleRequired /\ max_cases >= 2 /\ IsBoolean(Frag(1))) =>
           result = OneKeySets(Props(parameters)[1].name,
                               <<BoolV(TRUE), BoolV(FALSE)>>)

(* C12 witness: a call returned for one required boolean parameter. *)
BooleanCoverageWitness ==
    Returns /\ SoleRequired /\ max_cases >= 2 /\ IsBoolean(Frag(1))

(* An integer fragment without enum whose two bounds are integers. *)
IsIntegerRange(f) ==
    /\ f.enum = <<>> /\ f.type = <<"integer">>
    /\ f.minimum # <<>> /\ f.maximum # <<>>
    /\ f.minimum[1].k = "int" /\ f.maximum[1].k = "int"

(* The integer trunc((a + b) / 2), computed exactly. *)
TruncMid(a, b) ==
    LET hi == (a.hi + b.hi) \div 2
        l  == a.n + b.n
    IN BigIntV(hi, IF l >= 0 \/ hi > 0 THEN l \div 2 ELSE 0 - ((0 - l) \div 2))

MinMidMax(f) == <<f.minimum[1], TruncMid(f.minimum[1], f.maximum[1]), f.maximum[1]>>

(* C13  Numeric range midpoint: an integer fragment with integer minimum a *)
(* and maximum b, and no enum, is sampled as [a, trunc((a + b) / 2), b].   *)
NumericMidpoint ==
    Sampled => \A j \in 1..Len(required_values) :
        IsIntegerRange(RequiredSpecs(specs)[j].schema) =>
            required_values[j].values = MinMidMax(RequiredSpecs(specs)[j].schema)

(* C14  max_cases is coerced to at least 1: with max_cases <= 0 the call   *)
(* raises no error and returns what max_cases = 1 returns, exactly one     *)
(* argument set.                                                           *)
CapCoercion ==
    max_cases <= 0 =>
        /\ pc # "raised"
        /\ Returns => /\ generate_arg_sets(parameters, 1) =
                            [error |-> "", value |-> result]
                      /\ Len(result) = 1

(* The loop over the optional parameters has ended. *)
Expanded ==
    \/ pc = "expand" /\ opt_idx > Len(OptionalSpecs(specs))
    \/ pc \in {"return", "done"}
    \/ pc = "raised" /\ error = "TypeError"

RECURSIVE SumOfCandidates(_)
(* The candidate counts of the optional parameters declared from i on. *)
SumOfCandidates(i) ==
    IF i > Len(Props(parameters)) THEN 0
    ELSE (IF i \in OptionalIdx THEN Len(Candidates(i)) ELSE 0) + SumOfCandidates(i + 1)

(* Some accumulated set binds the optional parameters o1, o2 to v1, v2. *)
CoversJointly(o1, v1, o2, v2) ==
    \E t \in 1..Len(arg_sets) :
        LET n1 == Props(parameters)[o1].name
            n2 == Props(parameters)[o2].name
        IN /\ {n1, n2} \subseteq DOMAIN arg_sets[t]
           /\ arg_sets[t][n1] = v1
           /\ arg_sets[t][n2] = v2

(* C15  Additive growth: with R required combinations and optional         *)
(* candidate counts c1..ck, at most R * (1 + c1 + ... + ck) sets are       *)
(* accumulated, and two different optional parameters with candidates have *)
(* a joint combination of values that no accumulated set covers.           *)
AdditiveGrowth ==
    Expanded =>
        /\ Len(arg_sets) <= Len(ReferenceProduct(1)) * (1 + SumOfCandidates(1))
        /\ \A o1, o2 \in OptionalIdx :
               (o1 # o2 /\ Candidates(o1) # <<>> /\ Candidates(o2) # <<>>
                  /\ arg_sets # <<>>) =>
                   \E k1 \in 1..Len(Candidates(o1)), k2 \in 1..Len(Candidates(o2)) :
                       ~CoversJointly(o1, Candidates(o1)[k1], o2, Candidates(o2)[k2])

(* The (name, set index) pairs of the keys of the returned argument sets. *)
ReturnedBindings ==
    {b \in [name : DeclaredNames, set : 1..Len(result)] : b.name \in DOMAIN result[b.set]}

(* The fragment declared under a name. *)
FragOf(name) ==
    Frag(CHOOSE i \in Declared : Props(parameters)[i].name = name)

(* C16 as stated  Output value types: every returned value is a string, a  *)
(* number, a boolean, an array or an object, never null.                   *)
NoNullProduced ==
    Returns => \A b \in ReturnedBindings :
        result[b.set][b.name].k \in {"str", "int", "float", "bool", "list", "dict"}

(* The schema itself supplies null for the parameter: in its enum, or as  *)
(* the default of a fragment sampled by the string rule.                   *)
SuppliesNull(f) ==
    \/ f.enum # <<>> /\ NoneV \in SeqRange(f.enum[1])
    \/ /\ f.enum = <<>>
       /\ Get(f.type, "string") \notin {"boolean", "integer", "number", "array", "object"}
       /\ f.default = <<NoneV>>

(* C16 amended  Every returned value is a string, a number, a boolean, an  *)
(* array or an object, or a null that the parameter's own schema supplies  *)
(* as an enum value or as the default of a string-sampled fragment.        *)
NullOnlyFromSchema ==
    Returns => \A b \in ReturnedBindings :
        \/ result[b.set][b.name].k \in {"str", "int", "float", "bool", "list", "dict"}
        \/ result[b.set][b.name] = NoneV /\ SuppliesNull(FragOf(b.name))

(* C16 witness: a returned argument set binds a parameter to null. *)
NullOnlyFromSchemaWitness ==
    Returns /\ \E b \in ReturnedBindings : result[b.set][b.name] = NoneV

(* C17  Concurrent invocation: under every interleaving of the steps of    *)
(* several calls, each call ends with exactly the outcome of a solitary    *)
(* sequential call on its own schema and cap.                              *)
IndependentCalls ==
    \A c \in DOMAIN frames :
        /\ frames[c].pc = "done" =>
               generate_arg_sets(frames[c].parameters, frames[c].max_cases) =
                   [error |-> "", value |-> frames[c].result]
        /\ frames[c].pc = "raised" =>
               generate_arg_sets(frames[c].parameters, frames[c].max_cases) =
                   [error |-> frames[c].error, value |-> <<>>]

(* C17 witness: a call has returned several sets while another call on the *)
(* same schema is inside its deduplication loop with keys already seen.    *)
IndependentCallsWitness ==
    \E c, d \in DOMAIN frames :
        /\ c # d
        /\ frames[c].pc = "done" /\ Len(frames[c].result) >= 2
        /\ frames[d].parameters = frames[c].parameters
        /\ frames[d].pc = "dedup" /\ frames[d].seen # {}

(* An integer or number fragment without enum that lacks a bound. *)
LacksBound(f) ==
    /\ f.enum = <<>> /\ Get(f.type, "string") \in {"integer", "number"}
    /\ Get(f.minimum, NoneV) = NoneV \/ Get(f.maximum, NoneV) = NoneV

ZeroOne(f) == <<IntV(0), IntV(1)>>

(* C18  Permissive fallback: an integer or number fragment without enum in *)
(* which minimum or maximum is missing or null is sampled, without         *)
(* failing, as [0, 1], whatever the bound that is present.                 *)
PermissiveFallback ==
    /\ SamplesAs(LacksBound, ZeroOne)
    /\ (Returns /\ SoleRequired /\ max_cases >= 2 /\ LacksBound(Frag(1))) =>
           result = OneKeySets(Props(parameters)[1].name, <<IntV(0), IntV(1)>>)

(* C18 witness: a call returned for one required numeric parameter that    *)
(* gives exactly one of the two bounds.                                    *)
PermissiveFallbackWitness ==
    /\ Returns /\ SoleRequired /\ max_cases >= 2 /\ LacksBound(Frag(1))
    /\ (Get(Frag(1).minimum, NoneV) = NoneV) # (Get(Frag(1).maximum, NoneV) = NoneV)

IsArray(f) == f.enum = <<>> /\ f.type = <<"array">>

IsObject(f) == f.enum = <<>> /\ f.type = <<"object">>

OneEmptyMapping(f) == <<EmptyDictV>>

(* `values` is one candidate, a list of one element: the first candidate   *)
(* of the items fragment, or "item" when items is absent or empty.         *)
IsArrayCandidates(f, values) ==
    /\ Len(values) = 1
    /\ values[1].k = "list"
    /\ Len(values[1].e) = 1
    /\ LET items == Get(f.items, EmptyFragment)
       IN IF Truthy(items)
          THEN /\ values_for_param(items).values # <<>>
               /\ values[1].e[1] = values_for_param(items).values[1]
          ELSE values[1].e[1] = StrV("item")

(* C19  Array and object sampling: an array fragment without enum is       *)
(* sampled as one list of one element, the first candidate of its items    *)
(* (nested arrays nest the list) or "item" without items; an object        *)
(* fragment as one empty mapping.                                          *)
ArraySampling ==
    /\ \A i \in Declared : IsArray(Frag(i)) =>
           /\ ~values_for_param(Frag(i)).raised
           /\ IsArrayCandidates(Frag(i), values_for_param(Frag(i)).values)
    /\ \A i \in Declared : Frag(i) = ArrayOf(ArrayOf(Typed("integer"))) =>
           values_for_param(Frag(i)).values = <<ListV(<<ListV(<<IntV(0)>>)>>)>>
    /\ Sampled => \A j \in 1..Len(required_values) :
           IsArray(RequiredSpecs(specs)[j].schema) =>
               IsArrayCandidates(RequiredSpecs(specs)[j].schema, required_values[j].values)
    /\ SamplesAs(IsObject, OneEmptyMapping)

(* A fragment sampled by the last rule: no enum, and a type that is        *)
(* missing, "string" or not recognised.                                    *)
IsStringLike(f) ==
    /\ f.enum = <<>>
    /\ Get(f.type, "string") \notin {"boolean", "integer", "number", "array", "object"}

DefaultOrExample(f) == <<Get(f.default, StrV("example"))>>

(* C20  String/default sampling: a fragment without enum whose type is     *)
(* missing, "string" or unrecognised is sampled as its default alone if    *)
(* the key is present and as "example" otherwise; for every other fragment *)
(* the default changes nothing.                                            *)
DefaultSampling ==
    /\ SamplesAs(IsStringLike, DefaultOrExample)
    /\ \A i \in Declared : ~IsStringLike(Frag(i)) =>
           values_for_param(Frag(i)) = values_for_param([Frag(i) EXCEPT !.default = <<>>])
    /\ (Returns /\ SoleRequired /\ IsStringLike(Frag(1))) =>
           result = OneKeySets(Props(parameters)[1].name, DefaultOrExample(Frag(1)))

(* C20 witness: a call returned for one required parameter of an           *)
(* unrecognised type that has a default.                                   *)
DefaultSamplingWitness ==
    /\ Returns /\ SoleRequired /\ IsStringLike(Frag(1))
    /\ Frag(1).type \notin {<<>>, <<"string">>}
    /\ Frag(1).default # <<>>

(* The deduplication loop has ended without raising. *)
Deduplicated == pc \in {"return", "done"}

(* The cap as the loop applies it: a cap below 1 stops after one set. *)
EffectiveCap == IF max_cases < 1 THEN 1 ELSE max_cases

(* C21  Deduplication equality: an accumulated set is dropped as duplicate *)
(* exactly when an earlier one has the same key/value pairs, arrays and    *)
(* objects compared structurally and values of different JSON kinds kept   *)
(* apart; so the loop never fails on a value, and the sets it keeps are    *)
(* the first occurrences of the contents, up to the cap.                   *)
DedupEquality ==
    /\ pc = "raised" => error # "TypeError"
    /\ Deduplicated =>
           LET firsts == FirstOccurrences(arg_sets)
           IN unique = SubSeq(firsts, 1, Min(EffectiveCap, Len(firsts)))

(* C22  The deduplication pass ends with zero unique sets only for a       *)
(* schema that declares no parameter; with at least one declared parameter *)
(* the returned list is the list of unique accumulated sets.               *)
FallbackOnlyWithoutParameters ==
    /\ (Deduplicated /\ unique = <<>>) => Props(parameters) = <<>>
    /\ (Returns /\ Props(parameters) # <<>>) =>
           /\ result = unique
           /\ \A i \in 1..Len(result) : \E t \in 1..Len(arg_sets) : result[i] = arg_sets[t]

OptionalNames == {Props(parameters)[i].name : i \in OptionalIdx}

(* The set binds an optional parameter. *)
HasOptionalKey(args) == DOMAIN args \cap OptionalNames # {}

(* The declaration index of the latest-declared optional key of the set. *)
LatestOptional(args) ==
    CHOOSE o \in OptionalIdx :
        /\ Props(parameters)[o].name \in DOMAIN args
        /\ \A q \in OptionalIdx : Props(parameters)[q].name \in DOMAIN args => q <= o

(* C23  The cap favours earlier production: in the returned list the sets  *)
(* without optional key come before every set with one, and a set whose    *)
(* latest-declared optional key is o_i comes before every set containing a *)
(* later-declared o_j; with at least max_cases distinct required           *)
(* combinations no returned set has an optional key.                       *)
EarlierProductionFirst ==
    Returns =>
        /\ \A i, j \in 1..Len(result) :
               (~HasOptionalKey(result[i]) /\ HasOptionalKey(result[j])) => i < j
        /\ \A i, j \in 1..Len(result) : \A oj \in OptionalIdx :
               (/\ HasOptionalKey(result[i])
                /\ LatestOptional(result[i]) < oj
                /\ Props(parameters)[oj].name \in DOMAIN result[j]) => i < j
        /\ Len(FirstOccurrences(ReferenceProduct(1))) >= max_cases =>
               \A i \in 1..Len(result) : ~HasOptionalKey(result[i])

(* v <= w for two numbers. *)
NumLeq(v, w) ==
    \/ NumValue(v)[1] < NumValue(w)[1]
    \/ NumValue(v)[1] = NumValue(w)[1] /\ NumValue(v)[2] <= NumValue(w)[2]

RECURSIVE DistinctFrom(_, _)
DistinctFrom(values, i) ==
    IF i > Len(values) THEN <<>>
    ELSE (IF \E j \in 1..(i - 1) : JsonEq(values[j], values[i])
          THEN <<>> ELSE <<values[i]>>) \o DistinctFrom(values, i + 1)

(* The values of the sequence, each at its first occurrence only. *)
Distinct(values) == DistinctFrom(values, 1)

(* An integer fragment with integer bounds a <= b. *)
IsOrderedIntegerRange(f) ==
    IsIntegerRange(f) /\ NumLeq(f.minimum[1], f.maximum[1])

(* C24  Narrow integer ranges: an integer fragment with a <= b is sampled  *)
(* as three values [a, mid, b] with a <= mid <= b, repetitions kept; one   *)
(* required integer parameter yields one set per distinct value among      *)
(* them, in first-occurrence order.                                        *)
NarrowRanges ==
    /\ Sampled => \A j \in 1..Len(required_values) :
           IsOrderedIntegerRange(RequiredSpecs(specs)[j].schema) =>
               LET f == RequiredSpecs(specs)[j].schema
                   values == required_values[j].values
               IN /\ Len(values) = 3
                  /\ values[1] = f.minimum[1]
                  /\ values[3] = f.maximum[1]
                  /\ NumLeq(f.minimum[1], values[2])
                  /\ NumLeq(values[2], f.maximum[1])
    /\ (Returns /\ SoleRequired /\ max_cases >= 3 /\ IsOrderedIntegerRange(Frag(1))) =>
           result = OneKeySets(Props(parameters)[1].name,
                               Distinct(required_values[1].values))

(* C25  Frame: no step of a call changes the input schema, and a round of  *)
(* the optional loop leaves every argument set accumulated so far as it    *)
(* was, only appending new sets.                                           *)
InputFrame ==
    [][/\ parameters' = parameters
       /\ (pc = "expand" /\ pc' = "expand") => IsPrefix(arg_sets, arg_sets')]_vars

(* C25 witness: an optional parameter with an enum has been expanded onto  *)
(* accumulated sets.                                                       *)
InputFrameWitness ==
    /\ pc = "expand" /\ opt_idx > 1
    /\ Len(arg_sets) > Len(RequiredArgSets(required_values))
    /\ \E o \in OptionalIdx : HasEnum(Frag(o))

(* C26  Values come from the sampler: in every returned argument set the   *)
(* value bound to a name is one of the candidates the sampler computes for *)
(* that parameter's fragment.                                              *)
ValuesFromSampler ==
    Returns => \A b \in ReturnedBindings :
        \E k \in 1..Len(values_for_param(FragOf(b.name)).values) :
            result[b.set][b.name] = values_for_param(FragOf(b.name)).values[k]

(* C26 witness: a returned set binds two required parameters whose         *)
(* candidate sequences have no value in common.                            *)
ValuesFromSamplerWitness ==
    /\ Returns
    /\ \E i, j \in RequiredIdx :
           /\ i # j
           /\ SeqRange(Candidates(i)) \cap SeqRange(Candidates(j)) = {}
           /\ \E t \in 1..Len(result) :
                  {Props(parameters)[i].name, Props(parameters)[j].name} \subseteq DOMAIN result[t]

(* The candidates of the parameter declared under a name. *)
CandidatesOf(name) == values_for_param(FragOf(name)).values

(* Every mapping that binds each required declared parameter to one of its *)
(* candidates and each optional parameter to nothing or to one of its      *)
(* candidates.                                                             *)
ReferenceMappings ==
    LET required_names == {Props(parameters)[i].name : i \in RequiredIdx}
        all_values == UNION {SeqRange(Candidates(i)) : i \in Declared}
    IN UNION {{m \in [required_names \cup chosen -> all_values] :
                  \A n \in DOMAIN m : m[n] \in SeqRange(CandidatesOf(n))} :
              chosen \in SUBSET OptionalNames}

RECURSIVE ProductOfCounts(_)
(* The product of the counts: c for a required parameter, 1 + c for an     *)
(* optional one, from declaration index i on.                              *)
ProductOfCounts(i) ==
    IF i > Len(Props(parameters)) THEN 1
    ELSE (IF i \in RequiredIdx THEN Len(Candidates(i)) ELSE 1 + Len(Candidates(i)))
             * ProductOfCounts(i + 1)

PairwiseDistinctCandidates ==
    \A i \in Declared : \A k1, k2 \in 1..Len(Candidates(i)) :
        k1 # k2 => ~JsonEq(Candidates(i)[k1], Candidates(i)[k2])

(* C27  Reference result without cap: when max_cases is at least the       *)
(* number of distinct accumulated sets and every parameter has a           *)
(* candidate, the returned sets are, as a set, exactly the reference       *)
(* mappings; with pairwise distinct candidates there are (product of the   *)
(* required counts) * (product of 1 + the optional counts) of them.        *)
ReferenceResult ==
    (/\ Returns
     /\ max_cases >= Len(FirstOccurrences(arg_sets))
     /\ \A i \in Declared : Candidates(i) # <<>>) =>
        /\ \A t \in 1..Len(result) : \E m \in ReferenceMappings : SameContent(result[t], m)
        /\ \A m \in ReferenceMappings : Contains(result, m)
        /\ PairwiseDistinctCandidates => Len(result) = ProductOfCounts(1)

RECURSIVE ExpectedVectors(_, _, _)
(* The test vectors of the tools from index i on: for each tool in file    *)
(* order, one per argument set the generator returns, in returned order.   *)
ExpectedVectors(tools, cap, i) ==
    IF i > Len(tools) THEN <<>>
    ELSE LET sets == generate_arg_sets(tools[i].parameters, cap).value
         IN [k \in 1..Len(sets) |-> TestVector(tools[i].name, sets[k])]
                \o ExpectedVectors(tools, cap, i + 1)

(* main has ended, by returning or by an uncaught exception. *)
DatasetEnded == dataset.pc \in {"done", "raised"}

(* The training items that are tool calls, as test vectors. *)
ToolCallVectors ==
    LET calls == SelectSeq(dataset.dataset_items, LAMBDA item : item.kind = "tool_call")
    IN [k \in 1..Len(calls) |-> TestVector(calls[k].tool, calls[k].arguments)]

(* C28  Dataset construction: when main ends, the test vectors are, for    *)
(* every tool in file order, one per argument set the generator returns    *)
(* for it, in returned order, each next to exactly one training item; so   *)
(* there are at most (number of tools) * max_cases of them for max_cases   *)
(* >= 1, and at least one per tool.                                        *)
DatasetPairs ==
    DatasetEnded =>
        /\ dataset.test_vectors =
               ExpectedVectors(dataset.tools, dataset.max_cases, 1)
        /\ ToolCallVectors = dataset.test_vectors
        /\ dataset.max_cases >= 1 =>
               Len(dataset.test_vectors) <= Len(dataset.tools) * dataset.max_cases
        /\ \A i \in 1..Len(dataset.tools) :
               \E k \in 1..Len(dataset.test_vectors) :
                   dataset.test_vectors[k].tool = dataset.tools[i].name

(* The request is a POST to /route whose Content-Length is a number. *)
RouteRequest == handler.path = "/route" /\ handler.content_length # "not_a_number"

(* The body read by its Content-Length parses to a JSON object. *)
BodyParses ==
    handler.content_length = "exact" /\ handler.body \in {"messages", "prompt", "empty_object"}

UpstreamSucceeds == handler.upstream \notin {"http_error", "timeout"}

FirstChoiceExtracts == handler.upstream \in {"message", "no_message_key"}

Served == handler.pc = "done"

ConfigLog == IF "log" \in DOMAIN config THEN config.log ELSE <<>>

(* The number of instances that existed before the i-th call. *)
CreatedBefore(i) == IF i = 1 THEN 0 ELSE ConfigLog[i - 1].created

(* The i-th call is a get_config with no get_config since the last         *)
(* reset_config, or since the start.                                       *)
FirstGetSinceReset(i) ==
    /\ ConfigLog[i].op = "get"
    /\ \/ \A j \in 1..(i - 1) : ConfigLog[j].op = "reset"
       \/ \E j \in 1..(i - 1) :
              /\ ConfigLog[j].op = "reset"
              /\ \A k \in (j + 1)..(i - 1) : ConfigLog[k].op = "reset"

(* C30  Config singleton: every get_config returns the instance the        *)
(* previous get_config returned unless a reset_config came in between; the *)
(* first get_config after a reset_config or at the start creates a new     *)
(* instance; reset_config creates none.                                    *)
ConfigSingleton ==
    \A i \in 1..Len(ConfigLog) :
        /\ ConfigLog[i].op = "reset" => ConfigLog[i].created = CreatedBefore(i)
        /\ FirstGetSinceReset(i) =>
               /\ ConfigLog[i].created = CreatedBefore(i) + 1
               /\ ConfigLog[i].returned = ConfigLog[i].created
        /\ (ConfigLog[i].op = "get" /\ ~FirstGetSinceReset(i)) =>
               /\ ConfigLog[i].created = CreatedBefore(i)
               /\ \E j \in 1..(i - 1) :
                      /\ ConfigLog[j].op = "get"
                      /\ \A k \in (j + 1)..(i - 1) : ConfigLog[k].op # "get"
                      /\ ConfigLog[i].returned = ConfigLog[j].returned

(* C30 witness: two get_config calls returned one instance, and after a    *)
(* reset_config a third returned another.                                  *)
ConfigSingletonWitness ==
    \E i \in 1..(Len(ConfigLog) - 3) :
        /\ ConfigLog[i].op = "get" /\ ConfigLog[i + 1].op = "get"
        /\ ConfigLog[i + 1].returned = ConfigLog[i].returned
        /\ ConfigLog[i + 2].op = "reset"
        /\ ConfigLog[i + 3].op = "get"
        /\ ConfigLog[i + 3].returned # ConfigLog[i].returned

====
